---------------------------- MODULE Spec2Model ----------------------------
(***************************************************************************)
(* Instruction layer of the collection program                             *)
(* (program/src/instruction.rs): the CollectionInstruction enum and its    *)
(* Borsh wire format, the six instruction builders, and the argument       *)
(* validation of CreateCollectionAccountArgs.                              *)
(*                                                                         *)
(* Strings are sequences of bytes (String::len() is the byte length).      *)
(* Option<T> is a record [some |-> FALSE] or [some |-> TRUE, val |-> v].   *)
(* A caller loop drives the model: from "idle" it calls one function with  *)
(* inputs drawn from bounded sets, the result is held in `out`, and        *)
(* Return goes back to "idle".  Serialized bytes travel in `wire`, where   *)
(* they can be truncated, extended or overwritten before they are decoded. *)
(***************************************************************************)
EXTENDS Integers, Sequences, FiniteSets, TLC

VARIABLES last, inp, out, wire

vars == <<last, inp, out, wire>>

----------------------------------------------------------------------------
(* Bounds of the model *)

\* number of caller-chosen public keys (besides the two well-known ids)
NumKeys == 2
\* longest string (in bytes) of the content-diverse payloads
MaxStrLen == 1
\* longest tag list of the content-diverse payloads
MaxTags == 1
\* longest raw buffer handed to the deserializer
MaxRawLen == 6
\* most bytes appended after a valid encoding
MaxTrailing == 1

----------------------------------------------------------------------------
(* Program constants *)

MAX_TITLE_LENGTH == 32
MAX_SYMBOL_LENGTH == 10
MAX_URI_LENGTH == 200
MAX_DESCRIPTION_LENGTH == 800
MAX_SHORT_DESCRIPTION_LENGTH == 800
MAX_TAG_LENGTH == 20
MAX_TAGS_ARRAY_LENGTH == 6

\* crate::state::AccountType: a field-less enum, one ordinal per record kind
NumAccountTypes == 3
AccountType == 0 .. (NumAccountTypes - 1)

\* solana_program well-known ids; every other Pubkey is a caller's key
SystemProgramId == 0
SysvarRentId == 1
Pubkey == 0 .. (NumKeys + 1)

Byte == 0 .. 255

----------------------------------------------------------------------------
(* Option<T> and Result<T, E> *)

None == [some |-> FALSE]
Some(v) == [some |-> TRUE, val |-> v]
Option(S) == {None} \cup {Some(v) : v \in S}

Ok(v) == [ok |-> TRUE, val |-> v]
Err(e) == [ok |-> FALSE, err |-> e]

----------------------------------------------------------------------------
(* CreateCollectionAccountArgs and CollectionInstruction *)

Args(t, s, d, i, h, sd, b, tg) ==
    [title |-> t, symbol |-> s, description |-> d, icon_image |-> i,
     header_image |-> h, short_description |-> sd, banner |-> b, tags |-> tg]

\* (variation) two variants declared in the other order
VariantsReordered ==
    <<"CreateCollectionAccount", "IncludeToken", "LightUpStarsOnce",
      "LightUpStarsThousand", "LightUpStarsHundred", "CloseAccount", "Withdraw">>

\* the variants in declaration order
Variants ==
    <<"CreateCollectionAccount", "IncludeToken", "LightUpStarsOnce",
      "LightUpStarsHundred", "LightUpStarsThousand", "CloseAccount", "Withdraw">>

\* the Borsh discriminant of a variant: its 0-based position in the enum
VariantIndex(v) == (CHOOSE i \in 1 .. Len(Variants) : Variants[i] = v) - 1

CreateCollectionAccount(args) == [variant |-> "CreateCollectionAccount", args |-> args]
CloseAccount(t) == [variant |-> "CloseAccount", account_type |-> t]
Unit(v) == [variant |-> v]

----------------------------------------------------------------------------
(* BorshSerialize *)

U32LE(n) ==
    <<n % 256, (n \div 256) % 256, (n \div 65536) % 256, (n \div 16777216) % 256>>

SerString(s) == U32LE(Len(s)) \o s

\* (variation) an absent value written as nothing at all
SerOptStringNoFlag(o) == IF o.some THEN <<1>> \o SerString(o.val) ELSE <<>>

SerOptString(o) == IF o.some THEN <<1>> \o SerString(o.val) ELSE <<0>>

RECURSIVE SerStrings(_)
SerStrings(xs) == IF xs = <<>> THEN <<>> ELSE SerString(Head(xs)) \o SerStrings(Tail(xs))

SerVecString(xs) == U32LE(Len(xs)) \o SerStrings(xs)

SerOptVecString(o) == IF o.some THEN <<1>> \o SerVecString(o.val) ELSE <<0>>

SerArgs(a) ==
    SerString(a.title) \o SerString(a.symbol) \o SerString(a.description)
    \o SerString(a.icon_image) \o SerOptString(a.header_image)
    \o SerOptString(a.short_description) \o SerOptString(a.banner)
    \o SerOptVecString(a.tags)

SerAccountType(t) == <<t>>

SerPayload(c) ==
    CASE c.variant = "CreateCollectionAccount" -> SerArgs(c.args)
      [] c.variant = "CloseAccount" -> SerAccountType(c.account_type)
      [] OTHER -> <<>>

\* CollectionInstruction::try_to_vec
try_to_vec(c) == <<VariantIndex(c.variant)>> \o SerPayload(c)

----------------------------------------------------------------------------
(* AccountMeta and the builders *)

AccountMetaNew(pubkey, is_signer) ==
    [pubkey |-> pubkey, is_signer |-> is_signer, is_writable |-> TRUE]

AccountMetaNewReadonly(pubkey, is_signer) ==
    [pubkey |-> pubkey, is_signer |-> is_signer, is_writable |-> FALSE]

Instruction(program_id, accounts, data) ==
    [program_id |-> program_id, accounts |-> accounts, data |-> data]

\* (variation) the funding account listed writable
create_collection_account_funder_writable(program_id, collection_account, from_account, args) ==
    Instruction(program_id,
        <<AccountMetaNew(collection_account, TRUE),
          AccountMetaNew(from_account, TRUE),
          AccountMetaNewReadonly(SysvarRentId, FALSE),
          AccountMetaNewReadonly(SystemProgramId, FALSE)>>,
        try_to_vec(CreateCollectionAccount(args)))

create_collection_account(program_id, collection_account, from_account, args) ==
    Instruction(program_id,
        <<AccountMetaNew(collection_account, TRUE),
          AccountMetaNewReadonly(from_account, TRUE),
          AccountMetaNewReadonly(SysvarRentId, FALSE),
          AccountMetaNewReadonly(SystemProgramId, FALSE)>>,
        try_to_vec(CreateCollectionAccount(args)))

include_token(program_id, collection_account, mint_account, payer_account, index_account) ==
    Instruction(program_id,
        <<AccountMetaNew(collection_account, TRUE),
          AccountMetaNew(mint_account, FALSE),
          AccountMetaNew(payer_account, TRUE),
          AccountMetaNew(index_account, FALSE),
          AccountMetaNewReadonly(SysvarRentId, FALSE),
          AccountMetaNewReadonly(SystemProgramId, FALSE)>>,
        try_to_vec(Unit("IncludeToken")))

light_up_stars_once(program_id, collection_account) ==
    Instruction(program_id,
        <<AccountMetaNew(collection_account, TRUE)>>,
        try_to_vec(Unit("LightUpStarsOnce")))

light_up_stars_hundred(program_id, collection_account, source_account, destination_account) ==
    Instruction(program_id,
        <<AccountMetaNew(collection_account, FALSE),
          AccountMetaNew(source_account, TRUE),
          AccountMetaNew(destination_account, FALSE),
          AccountMetaNewReadonly(SystemProgramId, FALSE)>>,
        try_to_vec(Unit("LightUpStarsHundred")))

close_account(program_id, state_account, recipient_account, authority_account, account_type) ==
    Instruction(program_id,
        <<AccountMetaNew(state_account, FALSE),
          AccountMetaNew(recipient_account, FALSE),
          AccountMetaNew(authority_account, TRUE)>>,
        try_to_vec(CloseAccount(account_type)))

\* (variation) the treasury listed as a signer
withdraw_treasury_signs(program_id, treasury_account, recipient_account) ==
    Instruction(program_id,
        <<AccountMetaNew(treasury_account, TRUE),
          AccountMetaNew(recipient_account, FALSE)>>,
        try_to_vec(Unit("Withdraw")))

withdraw(program_id, treasury_account, recipient_account) ==
    Instruction(program_id,
        <<AccountMetaNew(treasury_account, FALSE),
          AccountMetaNew(recipient_account, FALSE)>>,
        try_to_vec(Unit("Withdraw")))

----------------------------------------------------------------------------
(* CreateCollectionAccountArgs::is_valid and check_tags *)

\* the for loop of check_tags: the first over-long tag returns false
RECURSIVE TagsLoop(_)
TagsLoop(tags) ==
    IF tags = <<>> THEN TRUE
    ELSE IF Len(Head(tags)) >= MAX_TAG_LENGTH THEN FALSE
    ELSE TagsLoop(Tail(tags))

\* (variation) a tag may be as long as MAX_TAG_LENGTH
check_tags_inclusive(self) ==
    IF ~self.tags.some THEN TRUE
    ELSE IF Len(self.tags.val) > MAX_TAGS_ARRAY_LENGTH THEN FALSE
    ELSE \A i \in 1 .. Len(self.tags.val) : Len(self.tags.val[i]) <= MAX_TAG_LENGTH

check_tags(self) ==
    IF ~self.tags.some THEN TRUE
    ELSE IF Len(self.tags.val) > MAX_TAGS_ARRAY_LENGTH THEN FALSE
    ELSE TagsLoop(self.tags.val)

is_valid(self) ==
    /\ Len(self.title) <= MAX_TITLE_LENGTH
    /\ Len(self.symbol) <= MAX_SYMBOL_LENGTH
    /\ Len(self.description) <= MAX_DESCRIPTION_LENGTH
    /\ Len(self.icon_image) <= MAX_URI_LENGTH
    /\ (~self.header_image.some \/ Len(self.header_image.val) <= MAX_URI_LENGTH)
    /\ (~self.short_description.some
            \/ Len(self.short_description.val) <= MAX_SHORT_DESCRIPTION_LENGTH)
    /\ (~self.banner.some \/ Len(self.banner.val) <= MAX_URI_LENGTH)
    /\ check_tags(self)

----------------------------------------------------------------------------
(* BorshDeserialize: a reader consumes a prefix of the buffer and returns  *)
(* the value with the rest of the buffer, or fails                         *)

Read(v, rest) == [ok |-> TRUE, val |-> v, rest |-> rest]
ReadErr(e) == [ok |-> FALSE, err |-> e]

Drop(buf, n) == SubSeq(buf, n + 1, Len(buf))

\* A u32 read from the buffer is held as its four little-endian bytes: the
\* model's integers are 32-bit signed and cannot hold every u32.
\* the u32 u as an integer, for u below 2^31
U32Int(u) == u[1] + 256 * u[2] + 65536 * u[3] + 16777216 * u[4]

\* u > m, for an integer m >= 0
U32Gt(u, m) == u[4] >= 128 \/ U32Int(u) > m

\* String::from_utf8: the well-formed byte sequences of UTF-8
IsCont(b) == b >= 128 /\ b <= 191

Utf8Width(b) ==
    IF b < 128 THEN 1
    ELSE IF b >= 194 /\ b <= 223 THEN 2
    ELSE IF b >= 224 /\ b <= 239 THEN 3
    ELSE IF b >= 240 /\ b <= 244 THEN 4
    ELSE 0

Utf8Second(lead, b) ==
    CASE lead = 224 -> b >= 160 /\ b <= 191
      [] lead = 237 -> b >= 128 /\ b <= 159
      [] lead = 240 -> b >= 144 /\ b <= 191
      [] lead = 244 -> b >= 128 /\ b <= 143
      [] OTHER -> IsCont(b)

IsUtf8(s) ==
    \A i \in 1 .. Len(s) :
        IF IsCont(s[i]) THEN i > 1
        ELSE LET w == Utf8Width(s[i]) IN
             /\ w > 0
             /\ i + w - 1 <= Len(s)
             /\ \A k \in 1 .. (w - 1) : IsCont(s[i + k])
             /\ (w > 1 => Utf8Second(s[i], s[i + 1]))
             /\ (i + w <= Len(s) => ~IsCont(s[i + w]))

DeU8(buf) ==
    IF Len(buf) < 1 THEN ReadErr("UnexpectedLength")
    ELSE Read(buf[1], Drop(buf, 1))

DeU32(buf) ==
    IF Len(buf) < 4 THEN ReadErr("UnexpectedLength")
    ELSE Read(SubSeq(buf, 1, 4), Drop(buf, 4))

DeString(buf) ==
    LET n == DeU32(buf) IN
    IF ~n.ok THEN n
    ELSE IF U32Gt(n.val, Len(n.rest)) THEN ReadErr("UnexpectedLength")
    ELSE LET s == SubSeq(n.rest, 1, U32Int(n.val)) IN
         IF IsUtf8(s) THEN Read(s, Drop(n.rest, U32Int(n.val)))
         ELSE ReadErr("InvalidUtf8")

DeOptString(buf) ==
    LET f == DeU8(buf) IN
    IF ~f.ok THEN f
    ELSE IF f.val = 0 THEN Read(None, f.rest)
    ELSE IF f.val = 1 THEN
         LET s == DeString(f.rest) IN
         IF s.ok THEN Read(Some(s.val), s.rest) ELSE s
    ELSE ReadErr("InvalidOption")

\* the element loop of Vec<String>: n elements in all, acc read so far
\* (CHOOSE r \in {F(s) : s \in {e}} : TRUE is F(e), with e computed once)
RECURSIVE DeStrings(_, _, _)
DeStrings(buf, n, acc) ==
    IF ~U32Gt(n, Len(acc)) THEN Read(acc, buf)
    ELSE CHOOSE r \in {IF ~s.ok THEN s ELSE DeStrings(s.rest, n, Append(acc, s.val)) :
                        s \in {DeString(buf)}} : TRUE

DeVecString(buf) ==
    LET n == DeU32(buf) IN
    IF ~n.ok THEN n ELSE DeStrings(n.rest, n.val, <<>>)

DeOptVecString(buf) ==
    LET f == DeU8(buf) IN
    IF ~f.ok THEN f
    ELSE IF f.val = 0 THEN Read(None, f.rest)
    ELSE IF f.val = 1 THEN
         LET v == DeVecString(f.rest) IN
         IF v.ok THEN Read(Some(v.val), v.rest) ELSE v
    ELSE ReadErr("InvalidOption")

\* the field types of CreateCollectionAccountArgs in declaration order
ArgsFields ==
    <<"String", "String", "String", "String",
      "OptString", "OptString", "OptString", "OptVecString">>

DeField(type, buf) ==
    CASE type = "String" -> DeString(buf)
      [] type = "OptString" -> DeOptString(buf)
      [] type = "OptVecString" -> DeOptVecString(buf)

\* field after field, each read where the one before it ended; the first
\* failure ends the read
RECURSIVE DeFields(_, _, _)
DeFields(buf, types, acc) ==
    IF types = <<>> THEN Read(acc, buf)
    ELSE CHOOSE r \in {IF ~x.ok THEN x
                        ELSE DeFields(x.rest, Tail(types), Append(acc, x.val)) :
                        x \in {DeField(Head(types), buf)}} : TRUE

DeArgs(buf) ==
    LET r == DeFields(buf, ArgsFields, <<>>) IN
    IF ~r.ok THEN r
    ELSE Read(Args(r.val[1], r.val[2], r.val[3], r.val[4],
                   r.val[5], r.val[6], r.val[7], r.val[8]), r.rest)

DeAccountType(buf) ==
    LET t == DeU8(buf) IN
    IF ~t.ok THEN t
    ELSE IF t.val \in AccountType THEN Read(t.val, t.rest)
    ELSE ReadErr("UnexpectedVariant")

\* (variation) the match ends in a catch-all arm that yields Withdraw
DeInstructionCatchAll(buf) ==
    LET tag == DeU8(buf) IN
    IF ~tag.ok THEN tag
    ELSE LET v == IF tag.val >= Len(Variants) THEN "Withdraw" ELSE Variants[tag.val + 1] IN
         IF v = "CreateCollectionAccount" THEN
            LET a == DeArgs(tag.rest) IN
            IF a.ok THEN Read(CreateCollectionAccount(a.val), a.rest) ELSE a
         ELSE IF v = "CloseAccount" THEN
            LET t == DeAccountType(tag.rest) IN
            IF t.ok THEN Read(CloseAccount(t.val), t.rest) ELSE t
         ELSE Read(Unit(v), tag.rest)

\* CollectionInstruction::deserialize: the match on the variant index
DeInstruction(buf) ==
    LET tag == DeU8(buf) IN
    IF ~tag.ok THEN tag
    ELSE IF tag.val >= Len(Variants) THEN ReadErr("UnexpectedVariant")
    ELSE LET v == Variants[tag.val + 1] IN
         IF v = "CreateCollectionAccount" THEN
            LET a == DeArgs(tag.rest) IN
            IF a.ok THEN Read(CreateCollectionAccount(a.val), a.rest) ELSE a
         ELSE IF v = "CloseAccount" THEN
            LET t == DeAccountType(tag.rest) IN
            IF t.ok THEN Read(CloseAccount(t.val), t.rest) ELSE t
         ELSE Read(Unit(v), tag.rest)

\* decode: deserialize, then nothing may be left
decode(buf) ==
    LET r == DeInstruction(buf) IN
    IF ~r.ok THEN Err(r.err)
    ELSE IF r.rest # <<>> THEN Err("NotAllBytesRead")
    ELSE Ok(r.val)

----------------------------------------------------------------------------
(* The inputs the caller draws *)

SeqsUpTo(S, n) == UNION {[1 .. k -> S] : k \in 0 .. n}

\* a string of n bytes
Fill(n) == [i \in 1 .. n |-> 97]

\* k tags of n bytes
Tags(k, n) == [i \in 1 .. k |-> Fill(n)]

AtAndAbove(max) == {Fill(max), Fill(max + 1)}

\* tag lists around the two limits of check_tags
BoundaryTagLists ==
    {<<>>,
     Tags(MAX_TAGS_ARRAY_LENGTH, MAX_TAG_LENGTH - 1),
     Tags(MAX_TAGS_ARRAY_LENGTH + 1, MAX_TAG_LENGTH - 1),
     Tags(MAX_TAGS_ARRAY_LENGTH + 1, 0),
     Tags(1, MAX_TAG_LENGTH),
     Append(Tags(MAX_TAGS_ARRAY_LENGTH - 1, MAX_TAG_LENGTH - 1), Fill(MAX_TAG_LENGTH)),
     <<Fill(MAX_TAG_LENGTH)>> \o Tags(MAX_TAGS_ARRAY_LENGTH - 1, MAX_TAG_LENGTH - 1)}

\* every field at its limit or one above it, every optional field also absent
BoundaryArgs ==
    {Args(t, s, d, i, h, sd, b, tg) :
        t \in AtAndAbove(MAX_TITLE_LENGTH),
        s \in AtAndAbove(MAX_SYMBOL_LENGTH),
        d \in AtAndAbove(MAX_DESCRIPTION_LENGTH),
        i \in AtAndAbove(MAX_URI_LENGTH),
        h \in Option(AtAndAbove(MAX_URI_LENGTH)),
        sd \in Option(AtAndAbove(MAX_SHORT_DESCRIPTION_LENGTH)),
        b \in Option(AtAndAbove(MAX_URI_LENGTH)),
        tg \in Option(BoundaryTagLists)}

\* "Cats", "CAT", "", "http://x", nothing optional
PlainArgs ==
    Args(<<67, 97, 116, 115>>, <<67, 65, 84>>, <<>>,
         <<104, 116, 116, 112, 58, 47, 47, 120>>, None, None, None, None)

\* every required field at its limit, nothing optional
FullArgs ==
    Args(Fill(MAX_TITLE_LENGTH), Fill(MAX_SYMBOL_LENGTH), Fill(MAX_DESCRIPTION_LENGTH),
         Fill(MAX_URI_LENGTH), None, None, None, None)

\* the payloads handed to the builder
BuilderArgs ==
    {PlainArgs,
     FullArgs,
     [PlainArgs EXCEPT !.title = Fill(40)],
     [PlainArgs EXCEPT !.symbol = Fill(MAX_SYMBOL_LENGTH + 1)],
     [PlainArgs EXCEPT !.banner = Some(Fill(MAX_URI_LENGTH + 1))],
     [PlainArgs EXCEPT !.tags = Some(Tags(MAX_TAGS_ARRAY_LENGTH, MAX_TAG_LENGTH - 1))],
     [PlainArgs EXCEPT !.tags = Some(Tags(1, MAX_TAG_LENGTH))],
     [PlainArgs EXCEPT !.header_image = Some(<<>>), !.tags = Some(<<>>)]}

\* short strings of different content: "", "a", and with more room "é", "aa"
Strs == {s \in SeqsUpTo({97, 195, 169}, MaxStrLen) : IsUtf8(s)}

\* payloads that differ in content, presence and list length
SmallArgs ==
    {Args(t, s, d, <<>>, h, sd, b, tg) :
        t \in Strs,
        s \in {<<>>, <<195, 169>>},
        d \in {<<>>, <<97>>},
        h \in Option({<<>>, <<97>>}),
        sd \in Option({<<>>}),
        b \in Option({<<98>>}),
        tg \in Option(SeqsUpTo({<<>>, <<97>>}, MaxTags))}

\* the instructions handed to the serializer
Instructions ==
    {Unit(v) : v \in {"IncludeToken", "LightUpStarsOnce", "LightUpStarsHundred",
                      "LightUpStarsThousand", "Withdraw"}}
    \cup {CloseAccount(t) : t \in AccountType}
    \cup {CreateCollectionAccount(a) : a \in SmallArgs \cup {PlainArgs, FullArgs}}

\* the bytes of arbitrary buffers and of trailing garbage
RawBytes == {0, 1, 5, 7, 255}

RawBuffers == SeqsUpTo(RawBytes, MaxRawLen)

----------------------------------------------------------------------------
(* The caller loop *)

NoInput == [none |-> TRUE]
NoOutput == [none |-> TRUE]

Init ==
    /\ last = "idle"
    /\ inp = NoInput
    /\ out = NoOutput
    /\ wire = <<>>

CallCreateCollectionAccount ==
    /\ last = "idle"
    /\ \E p \in Pubkey, c \in Pubkey, f \in Pubkey, a \in BuilderArgs :
        /\ inp' = [program_id |-> p, collection_account |-> c, from_account |-> f,
                   args |-> a]
        /\ out' = create_collection_account(p, c, f, a)
    /\ last' = "create_collection_account"
    /\ UNCHANGED wire

CallIncludeToken ==
    /\ last = "idle"
    /\ \E p \in Pubkey, c \in Pubkey, m \in Pubkey, py \in Pubkey, ix \in Pubkey :
        /\ inp' = [program_id |-> p, collection_account |-> c, mint_account |-> m,
                   payer_account |-> py, index_account |-> ix]
        /\ out' = include_token(p, c, m, py, ix)
    /\ last' = "include_token"
    /\ UNCHANGED wire

CallLightUpStarsOnce ==
    /\ last = "idle"
    /\ \E p \in Pubkey, c \in Pubkey :
        /\ inp' = [program_id |-> p, collection_account |-> c]
        /\ out' = light_up_stars_once(p, c)
    /\ last' = "light_up_stars_once"
    /\ UNCHANGED wire

CallLightUpStarsHundred ==
    /\ last = "idle"
    /\ \E p \in Pubkey, c \in Pubkey, s \in Pubkey, d \in Pubkey :
        /\ inp' = [program_id |-> p, collection_account |-> c, source_account |-> s,
                   destination_account |-> d]
        /\ out' = light_up_stars_hundred(p, c, s, d)
    /\ last' = "light_up_stars_hundred"
    /\ UNCHANGED wire

CallCloseAccount ==
    /\ last = "idle"
    /\ \E p \in Pubkey, s \in Pubkey, r \in Pubkey, a \in Pubkey, t \in AccountType :
        /\ inp' = [program_id |-> p, state_account |-> s, recipient_account |-> r,
                   authority_account |-> a, account_type |-> t]
        /\ out' = close_account(p, s, r, a, t)
    /\ last' = "close_account"
    /\ UNCHANGED wire

CallWithdraw ==
    /\ last = "idle"
    /\ \E p \in Pubkey, t \in Pubkey, r \in Pubkey :
        /\ inp' = [program_id |-> p, treasury_account |-> t, recipient_account |-> r]
        /\ out' = withdraw(p, t, r)
    /\ last' = "withdraw"
    /\ UNCHANGED wire

CallIsValid ==
    /\ last = "idle"
    /\ \E a \in BoundaryArgs \cup BuilderArgs :
        /\ inp' = [args |-> a]
        /\ out' = is_valid(a)
    /\ last' = "is_valid"
    /\ UNCHANGED wire

\* serialize an instruction; the bytes go on the wire
CallTryToVec ==
    /\ last = "idle"
    /\ \E c \in Instructions :
        /\ inp' = [cmd |-> c]
        /\ out' = try_to_vec(c)
        /\ wire' = try_to_vec(c)
    /\ last' = "try_to_vec"

\* the bytes are cut short on the way
Truncate ==
    /\ last = "try_to_vec"
    /\ \E n \in 0 .. (Len(wire) - 1) : wire' = SubSeq(wire, 1, n)
    /\ last' = "truncate"
    /\ UNCHANGED <<inp, out>>

\* bytes follow the encoding
AppendByte ==
    /\ last \in {"try_to_vec", "append"}
    /\ Len(wire) < Len(out) + MaxTrailing
    /\ \E b \in RawBytes : wire' = Append(wire, b)
    /\ last' = "append"
    /\ UNCHANGED <<inp, out>>

\* one byte of the encoding is overwritten
Corrupt ==
    /\ last = "try_to_vec"
    /\ \E i \in 1 .. Len(wire), b \in RawBytes :
        /\ b # wire[i]
        /\ wire' = [wire EXCEPT ![i] = b]
    /\ last' = "corrupt"
    /\ UNCHANGED <<inp, out>>

\* an arbitrary buffer arrives
Receive ==
    /\ last = "idle"
    /\ \E b \in RawBuffers :
        /\ inp' = [bytes |-> b]
        /\ wire' = b
    /\ out' = NoOutput
    /\ last' = "receive"

\* the executor decodes what is on the wire
CallDecode ==
    /\ last \in {"try_to_vec", "truncate", "append", "corrupt", "receive"}
    /\ out' = decode(wire)
    /\ last' = "decode"
    /\ UNCHANGED <<inp, wire>>

Return ==
    /\ last # "idle"
    /\ last' = "idle"
    /\ inp' = NoInput
    /\ out' = NoOutput
    /\ wire' = <<>>

Next ==
    \/ CallCreateCollectionAccount
    \/ CallIncludeToken
    \/ CallLightUpStarsOnce
    \/ CallLightUpStarsHundred
    \/ CallCloseAccount
    \/ CallWithdraw
    \/ CallIsValid
    \/ CallTryToVec
    \/ Truncate
    \/ AppendByte
    \/ Corrupt
    \/ Receive
    \/ CallDecode
    \/ Return

Spec == Init /\ [][Next]_vars

----------------------------------------------------------------------------
(* Vocabulary of the properties *)

\* one entry of a reference list: a key, whether writable, whether it must sign
Ref(k, writable, signer) == [pubkey |-> k, is_signer |-> signer, is_writable |-> writable]

IsRequest(r) == "program_id" \in DOMAIN r

Builders ==
    {"create_collection_account", "include_token", "light_up_stars_once",
     "light_up_stars_hundred", "close_account", "withdraw"}

\* the tag each variant is documented to have
DocumentedTag(v) ==
    CASE v = "CreateCollectionAccount" -> 0
      [] v = "IncludeToken" -> 1
      [] v = "LightUpStarsOnce" -> 2
      [] v = "LightUpStarsHundred" -> 3
      [] v = "LightUpStarsThousand" -> 4
      [] v = "CloseAccount" -> 5
      [] v = "Withdraw" -> 6

\* the operation a builder is named for
NamedFor(b) ==
    CASE b = "create_collection_account" -> "CreateCollectionAccount"
      [] b = "include_token" -> "IncludeToken"
      [] b = "light_up_stars_once" -> "LightUpStarsOnce"
      [] b = "light_up_stars_hundred" -> "LightUpStarsHundred"
      [] b = "close_account" -> "CloseAccount"
      [] b = "withdraw" -> "Withdraw"

\* the validation invariants as documented
DocumentedValid(a) ==
    /\ Len(a.title) <= 32
    /\ Len(a.symbol) <= 10
    /\ Len(a.description) <= 800
    /\ Len(a.icon_image) <= 200
    /\ (a.header_image.some => Len(a.header_image.val) <= 200)
    /\ (a.short_description.some => Len(a.short_description.val) <= 800)
    /\ (a.banner.some => Len(a.banner.val) <= 200)
    /\ (a.tags.some =>
            /\ Len(a.tags.val) <= 6
            /\ \A i \in 1 .. Len(a.tags.val) : Len(a.tags.val[i]) < 20)

IsStrictPrefix(p, b) == Len(p) < Len(b) /\ SubSeq(b, 1, Len(p)) = p

\* the wire still carries bytes made from the instruction in inp
FromInstruction == "cmd" \in DOMAIN inp

----------------------------------------------------------------------------
(* C1: create_collection_account fails with InvalidArgs, and produces no   *)
(* request, for every payload that is not valid.                           *)
C1_InvalidPayloadRejected ==
    (last = "create_collection_account" /\ ~is_valid(inp.args))
        => (~IsRequest(out) /\ out = Err("InvalidArgs"))

(* C2: include_token lists collection (writable, signer), mint (read-only),*)
(* payer (read-only, signer), index record (writable), rent-info and the   *)
(* system program (both read-only), in this order, and its body is the     *)
(* encoding of IncludeToken.                                               *)
C2_IncludeTokenReferences ==
    last = "include_token" =>
        /\ out.accounts =
              <<Ref(inp.collection_account, TRUE, TRUE),
                Ref(inp.mint_account, FALSE, FALSE),
                Ref(inp.payer_account, FALSE, TRUE),
                Ref(inp.index_account, TRUE, FALSE),
                Ref(SysvarRentId, FALSE, FALSE),
                Ref(SystemProgramId, FALSE, FALSE)>>
        /\ out.data = try_to_vec(Unit("IncludeToken"))

(* C3: light_up_stars_hundred lists collection (writable), source          *)
(* (read-only, signer), destination (writable) and the system program      *)
(* (read-only), in this order, and its body is the encoding of             *)
(* LightUpStarsHundred.                                                    *)
C3_LightUpStarsHundredReferences ==
    last = "light_up_stars_hundred" =>
        /\ out.accounts =
              <<Ref(inp.collection_account, TRUE, FALSE),
                Ref(inp.source_account, FALSE, TRUE),
                Ref(inp.destination_account, TRUE, FALSE),
                Ref(SystemProgramId, FALSE, FALSE)>>
        /\ out.data = try_to_vec(Unit("LightUpStarsHundred"))

C5_CreateCollectionAccountRequest ==
    (last = "create_collection_account" /\ is_valid(inp.args)) =>
        /\ IsRequest(out)
        /\ out.program_id = inp.program_id
        /\ out.accounts =
              <<Ref(inp.collection_account, TRUE, TRUE),
                Ref(inp.from_account, FALSE, TRUE),
                Ref(SysvarRentId, FALSE, FALSE),
                Ref(SystemProgramId, FALSE, FALSE)>>
        /\ out.data = <<0>> \o SerArgs(inp.args)
        /\ decode(out.data) = Ok(CreateCollectionAccount(inp.args))

C5_Witness ==
    /\ last = "create_collection_account"
    /\ is_valid(inp.args)
    /\ inp.args.tags.some
    /\ Len(inp.args.tags.val) = MAX_TAGS_ARRAY_LENGTH
    /\ inp.collection_account # inp.from_account

(* C6: close_account lists record (writable), recipient (writable) and     *)
(* authority (read-only, signer), in this order, and its body is the       *)
(* CloseAccount tag followed by the one-byte ordinal of the account type.  *)
C6_CloseAccountRequest ==
    last = "close_account" =>
        /\ out.accounts =
              <<Ref(inp.state_account, TRUE, FALSE),
                Ref(inp.recipient_account, TRUE, FALSE),
                Ref(inp.authority_account, FALSE, TRUE)>>
        /\ out.data = <<5, inp.account_type>>

(* C7: decoding the encoding of an instruction gives the instruction back, *)
(* and no other instruction has the same encoding.                         *)
C7_RoundTrip ==
    /\ (last = "decode" /\ FromInstruction /\ wire = try_to_vec(inp.cmd))
            => out = Ok(inp.cmd)
    /\ last = "try_to_vec"
            => \A c \in Instructions : try_to_vec(c) = out => c = inp.cmd

C7_Witness ==
    /\ last = "decode"
    /\ FromInstruction
    /\ wire = try_to_vec(inp.cmd)
    /\ inp.cmd.variant = "CreateCollectionAccount"
    /\ inp.cmd.args.header_image.some
    /\ ~inp.cmd.args.banner.some
    /\ inp.cmd.args.tags.some
    /\ inp.cmd.args.tags.val # <<>>
    /\ out.ok

C9_IsValidExactly ==
    last = "is_valid" => (out <=> DocumentedValid(inp.args))

C9_Witness ==
    /\ last = "is_valid"
    /\ out = TRUE
    /\ Len(inp.args.title) = 32
    /\ Len(inp.args.description) = 800
    /\ inp.args.banner.some
    /\ inp.args.tags = Some(Tags(6, 19))

(* C10: the first byte of an encoding is the variant's 0-based position in *)
(* the declaration (0 to 6), the rest is the payload's encoding, a variant *)
(* without a payload is one byte, and a builder's body starts with the tag *)
(* of the operation it is named for.                                       *)
C10_TagByte ==
    /\ last = "try_to_vec" =>
        /\ out[1] = DocumentedTag(inp.cmd.variant)
        /\ Tail(out) = SerPayload(inp.cmd)
        /\ (inp.cmd.variant \notin {"CreateCollectionAccount", "CloseAccount"}
                => Len(out) = 1)
    /\ last \in Builders => out.data[1] = DocumentedTag(NamedFor(last))

C10_Witness ==
    /\ last = "try_to_vec"
    /\ inp.cmd.variant = "LightUpStarsThousand"
    /\ out = <<4>>

============================================================================
